---- MODULE Spec2Model ----
(***************************************************************************)
(* The transition engine of typed-navigation: the navigation state cell    *)
(* (in memory mode a LazyRef transformed by clampNavigationState), the     *)
(* before/after handler registries and the operations navigate, back,      *)
(* forward, traverseTo, reload and updateCurrentEntry, each driven through *)
(* runNavigationEvent; the blocking facade of useBlockNavigation; and the  *)
(* history layer, which commits to the window's session history and        *)
(* handles its popstate and hashchange events.                             *)
(*                                                                         *)
(* Array positions are 0-based as in the source: entries[index] of the     *)
(* source is s.entries[s.index + 1] here.  An Option is a sequence of      *)
(* length 0 (None) or 1 (Some).  A UUID is a natural number drawn from the *)
(* counter nextId: two UUIDs are equal only if they were drawn once.       *)
(***************************************************************************)
EXTENDS Integers, Sequences, FiniteSets, TLC

VARIABLES
    state,          \* the LazyRef under the transform: [entries, index, transition]
    maxEntries,     \* options.maxEntries ?? 50 of a memory layer
    base,           \* options.base ?? '/' of the layer
    blockState,     \* the cell of useBlockNavigation, once it was called
    host,           \* the window's session history under a history layer
    beforeHandlers, \* LazyRef<Set<[handler, ctx]>>, in insertion order
    handlers,       \* the after-handler registry, in insertion order
    nextId,         \* the next value makeUuid returns
    queue,          \* calls waiting for state.runUpdates, oldest first
    op,             \* the call that holds runUpdates, and where it stands
    ret,            \* what a call that never entered runUpdates returned
    budget          \* what the environment may still do

vars == <<state, maxEntries, base, blockState, host, beforeHandlers, handlers, nextId, queue, op, ret, budget>>

(***************************************************************************)
(* Bounds of the model.                                                    *)
(***************************************************************************)
MaxOps == 2             \* calls of operations in one behaviour
MaxRedirects == 2       \* Redirect failures raised by handlers in one behaviour
MaxCommitFails == 1     \* failures of a caller-supplied commit
MaxHandlers == 2        \* live registrations per registry
MaxWaiting == 1         \* calls waiting behind the running one
MaxRegs == 2            \* registrations and releases of handlers in one behaviour
MaxEntriesOpt == 3      \* largest maxEntries option tried
MaxInitEntries == 3     \* longest options.entries tried
MaxEvents == 2          \* popstate and hashchange events in one behaviour

(***************************************************************************)
(* Program constants.                                                      *)
(***************************************************************************)
RedirectLimit == 25

Min(a, b) == IF a < b THEN a ELSE b
Max(a, b) == IF a > b THEN a ELSE b
Range(s) == {s[k] : k \in 1..Len(s)}
None == <<>>
Some(x) == <<x>>
isSome(o) == Len(o) > 0

(***************************************************************************)
(* Values.                                                                 *)
(***************************************************************************)
Undefined == [tag |-> "plain", value |-> "undefined"]
PlainStates == {Undefined, [tag |-> "plain", value |-> "s1"]}
Origin == "https://example.com"
Url(p, h) == [origin |-> Origin, pathname |-> p, hash |-> h]
Urls == {Url("/a", ""), Url("/a", "#x"), Url("/b", "")}
Histories == {"push", "replace", "auto"}
\* keys of no entry: makeUuid draws from 1 up
UnknownKeys == {0}
\* the key field of a request that names no key
NoKey == CHOOSE k \in UnknownKeys : TRUE

PatchedState(id, key, s) == [tag |-> "patched", id |-> id, key |-> key, inner |-> s]

isPatchedState(s) == s.tag = "patched"

getOriginalState(s) == IF isPatchedState(s) THEN s.inner ELSE s

\* a string given where a URL or a path is taken
Path(p) == [path |-> p]

\* new URL(path, origin) for a path that starts with '/'
getUrl(origin, urlOrPath) ==
    IF "path" \in DOMAIN urlOrPath
    THEN [origin |-> origin, pathname |-> urlOrPath.path, hash |-> ""]
    ELSE urlOrPath

\* variant: a patched state is taken for a plain one
makeDestinationMinting(url, s, origin, uid) ==
    [dest |-> [id |-> uid, key |-> uid + 1, url |-> url, state |-> s,
               sameDocument |-> (url.origin = origin)],
     used |-> 2]

\* makeDestination: the destination, and the number of uuids it drew.
makeDestination(url, s, origin, uid) ==
    IF isPatchedState(s)
    THEN [dest |-> [id |-> s.id, key |-> s.key, url |-> url, state |-> s.inner,
                    sameDocument |-> (url.origin = origin)],
          used |-> 0]
    ELSE [dest |-> [id |-> uid, key |-> uid + 1, url |-> url, state |-> s,
                    sameDocument |-> (url.origin = origin)],
          used |-> 2]

\* variant: a destination at the current path gets a key of its own
makeOrUpdateDestinationAnew(navigationState, url, s, origin, uid) ==
    makeDestination(url, s, origin, uid)

\* variant: a destination at the current path keeps the current id too
makeOrUpdateDestinationSameId(navigationState, url, s, origin, uid) ==
    LET current == navigationState.entries[navigationState.index + 1]
    IN  IF url.origin = current.url.origin /\ url.pathname = current.url.pathname
        THEN [dest |-> [id |-> current.id, key |-> current.key, url |-> url,
                        state |-> getOriginalState(s),
                        sameDocument |-> (url.origin = origin)],
              used |-> 0]
        ELSE makeDestination(url, s, origin, uid)

makeOrUpdateDestination(navigationState, url, s, origin, uid) ==
    LET current == navigationState.entries[navigationState.index + 1]
        isSameOriginAndPath ==
            /\ url.origin = current.url.origin
            /\ url.pathname = current.url.pathname
    IN  IF isSameOriginAndPath
        THEN [dest |-> [id |-> uid, key |-> current.key, url |-> url,
                        state |-> getOriginalState(s),
                        sameDocument |-> (url.origin = origin)],
              used |-> 1]
        ELSE makeDestination(url, s, origin, uid)

isDestination(d) == "id" \in DOMAIN d /\ "key" \in DOMAIN d

upgradeProposedDestination(p, uid) ==
    [id |-> uid, key |-> uid + 1, url |-> p.url, state |-> p.state,
     sameDocument |-> p.sameDocument]

(***************************************************************************)
(* The state cell.                                                         *)
(***************************************************************************)
\* Array.prototype.slice(-n): the last n elements; slice(-0) is slice(0).
\* (n is never negative here)
sliceLast(s, n) ==
    IF n = 0 \/ n >= Len(s) THEN s ELSE SubSeq(s, Len(s) - n + 1, Len(s))

\* variant: the entries are cut to n, the index is left as given
clampEntriesOnly(n, s) ==
    [entries |-> sliceLast(s.entries, n),
     index |-> s.index,
     transition |-> s.transition]

clampNavigationState(n, s) ==
    LET es == sliceLast(s.entries, n)
    IN  [entries |-> es,
         index |-> Min(Max(0, s.index), Len(es) - 1),
         transition |-> s.transition]

\* a memory layer has no window
NoHost == [tag |-> "none"]

\* the window of a history layer: its session history, each slot a URL and
\* the raw history.state, and the slot it stands at (0-based)
Window(slots, at) == [tag |-> "window", slots |-> slots, at |-> at]

\* LazyRef.transform(ref, clamp, clamp): what a read of the cell returns; the
\* cell of a history layer has no transform
Get == IF host = NoHost THEN clampNavigationState(maxEntries, state) ELSE state

\* variant: a write stores its argument as given
StoredAsGiven(a) == a

\* and what a write stores
Stored(a) == IF host = NoHost THEN clampNavigationState(maxEntries, a) ELSE a

\* the value `set` hands back to its caller
SetResult(a) ==
    IF host = NoHost THEN clampNavigationState(maxEntries, Stored(a)) ELSE a

currentEntry == Get.entries[Get.index + 1]
canGoBack == Get.index > 0
canGoForward == Get.index < Len(Get.entries) - 1

(***************************************************************************)
(* Events, requests and the running call.                                  *)
(***************************************************************************)
NoInfo == "undefined"

TransitionEvent(type, from, to, delta, info) ==
    [type |-> type, from |-> from, to |-> to, delta |-> delta, info |-> info]

Request(kind, via, url, history, s, key) ==
    [state |-> s, key |-> key, url |-> url, kind |-> kind, via |-> via,
     history |-> history, skipCommit |-> FALSE, andThen |-> None,
     \* bookkeeping: the marker a popstate carried, and whether the window's
     \* event found no call running or waiting and the window at the current
     \* entry's URL
     marker |-> None, quiet |-> TRUE,
     \* bookkeeping: the state handed to history.pushState
     given |-> None]

NoUrl == Url("", "")

IdleOp ==
    [pc |-> "idle", call |-> None, event |-> None, current |-> None, depth |-> 0,
     skipCommit |-> FALSE, snap |-> <<>>, i |-> 1, matches |-> <<>>, to |-> None,
     \* what follows is bookkeeping about the call, read only by the properties
     pre |-> None, orig |-> None, log |-> <<>>, nEvents |-> 0, snaps |-> <<>>,
     polls |-> <<>>, nCommits |-> 0, failure |-> None, outcome |-> "",
     result |-> None, block |-> <<>>, awaited |-> None,
     \* the call that ended before this one: its request, the state it found
     \* and how it ended
     last |-> None,
     \* the last failure of a handler or effect: the event's number, the
     \* phase, the position and what had run for the event, failure included
     failedAt |-> None]

\* variant: the proposed destination is shown as the current entry at once
runNavigationEventEager(o, beforeEvent, s, depth, skipCommit, bh) ==
    LET written == [s EXCEPT !.transition = Some(beforeEvent),
                             !.entries = [s.entries EXCEPT ![s.index + 1] =
                                                            beforeEvent.to]]
        snap == IF skipCommit THEN <<>> ELSE bh
    IN  [op |-> [o EXCEPT !.pc = IF Len(snap) = 0 THEN "commit" ELSE "before",
                          !.event = Some(beforeEvent),
                          !.current = Some(SetResult(written)),
                          !.depth = depth,
                          !.skipCommit = skipCommit,
                          !.snap = snap, !.i = 1, !.matches = <<>>,
                          !.log = <<>>, !.nEvents = @ + 1,
                          !.snaps = IF skipCommit THEN @ ELSE Append(@, snap),
                          !.polls = IF skipCommit THEN @ ELSE Append(@, 0)],
         state |-> Stored(written)]

\* variant: the before-handlers are polled whatever skipCommit says
runNavigationEventPolling(o, beforeEvent, s, depth, skipCommit, bh) ==
    LET written == [s EXCEPT !.transition = Some(beforeEvent)]
    IN  [op |-> [o EXCEPT !.pc = IF Len(bh) = 0 THEN "commit" ELSE "before",
                          !.event = Some(beforeEvent),
                          !.current = Some(SetResult(written)),
                          !.depth = depth,
                          !.skipCommit = skipCommit,
                          !.snap = bh, !.i = 1, !.matches = <<>>,
                          !.log = <<>>, !.nEvents = @ + 1,
                          !.snaps = Append(@, bh),
                          !.polls = Append(@, 0)],
         state |-> Stored(written)]

\* runNavigationEvent, lines 814-825: publish the transition, then either skip
\* the before phase or start it on a snapshot of the registry
runNavigationEvent(o, beforeEvent, s, depth, skipCommit, bh) ==
    LET written == [s EXCEPT !.transition = Some(beforeEvent)]
        snap == IF skipCommit THEN <<>> ELSE bh
    IN  [op |-> [o EXCEPT !.pc = IF Len(snap) = 0 THEN "commit" ELSE "before",
                          !.event = Some(beforeEvent),
                          !.current = Some(SetResult(written)),
                          !.depth = depth,
                          !.skipCommit = skipCommit,
                          !.snap = snap, !.i = 1, !.matches = <<>>,
                          !.log = <<>>, !.nEvents = @ + 1,
                          !.snaps = IF skipCommit THEN @ ELSE Append(@, snap),
                          !.polls = IF skipCommit THEN @ ELSE Append(@, 0)],
         state |-> Stored(written)]

\* variant: the redirect event is a push
makeRedirectEventAsPush(origin, redirect, from, uid) ==
    LET url == getUrl(origin, redirect.path)
        made == makeDestination(url, redirect.state, origin, uid)
    IN  [event |-> TransitionEvent("push", from, made.dest, 1, NoInfo),
         used |-> made.used]

makeRedirectEvent(origin, redirect, from, uid) ==
    LET url == getUrl(origin, redirect.path)
        made == makeDestination(url, redirect.state, origin, uid)
    IN  [event |-> TransitionEvent("replace", from, made.dest, 0, NoInfo),
         used |-> made.used]

\* handleError: the depth guard, then Cancel or Redirect
\* variant: the loop is taken for detected at the first redirect already
handleErrorAtFirst(o, error, s, uid, bh) ==
    IF o.depth >= 1
    THEN [op |-> [o EXCEPT !.pc = "done", !.outcome = "died"],
          state |-> state, used |-> 0]
    ELSE LET from == s.entries[s.index + 1]
         IN  IF error.tag = "CancelNavigation"
             THEN [op |-> [o EXCEPT !.pc = "done", !.outcome = "cancelled",
                                    !.result = Some(from)],
                   state |-> Stored([entries |-> s.entries, index |-> s.index,
                                     transition |-> None]),
                   used |-> 0]
             ELSE LET made == makeRedirectEvent(Origin, error, from, uid)
                      next == runNavigationEvent(o, made.event, s, o.depth + 1,
                                                 FALSE, bh)
                  IN  [op |-> next.op, state |-> next.state, used |-> made.used]

\* variant: a cancelled event goes on to its commit
handleErrorCommitting(o, error, s, uid, bh) ==
    IF o.depth >= RedirectLimit
    THEN [op |-> [o EXCEPT !.pc = "done", !.outcome = "died"],
          state |-> state, used |-> 0]
    ELSE LET from == s.entries[s.index + 1]
         IN  IF error.tag = "CancelNavigation"
             THEN [op |-> [o EXCEPT !.pc = "commit", !.i = 1],
                   state |-> state, used |-> 0]
             ELSE LET made == makeRedirectEvent(Origin, error, from, uid)
                      next == runNavigationEvent(o, made.event, s, o.depth + 1,
                                                 FALSE, bh)
                  IN  [op |-> next.op, state |-> next.state, used |-> made.used]

handleError(o, error, s, uid, bh) ==
    IF o.depth >= RedirectLimit
    THEN [op |-> [o EXCEPT !.pc = "done", !.outcome = "died"],
          state |-> state, used |-> 0]
    ELSE LET from == s.entries[s.index + 1]
         IN  IF error.tag = "CancelNavigation"
             THEN [op |-> [o EXCEPT !.pc = "done", !.outcome = "cancelled",
                                    !.result = Some(from)],
                   state |-> Stored([entries |-> s.entries, index |-> s.index,
                                     transition |-> None]),
                   used |-> 0]
             ELSE LET made == makeRedirectEvent(Origin, error, from, uid)
                      next == runNavigationEvent(o, made.event, s, o.depth + 1,
                                                 FALSE, bh)
                  IN  [op |-> next.op, state |-> next.state, used |-> made.used]

\* variant: a push adds the entry and leaves the index where it was
mutateStayingPut(beforeEvent, current, to) ==
    IF beforeEvent.type = "push"
    THEN LET idx == current.index + 1
         IN  [entries |-> Append(SubSeq(current.entries, 1, idx), to),
              index |-> current.index, transition |-> None]
    ELSE IF beforeEvent.type = "replace"
    THEN LET idx == current.index
         IN  [entries |-> SubSeq(current.entries, 1, idx) \o <<to>>
                          \o SubSeq(current.entries, idx + 2, Len(current.entries)),
              index |-> idx, transition |-> None]
    ELSE IF beforeEvent.type = "reload"
    THEN [current EXCEPT !.transition = None]
    ELSE [current EXCEPT !.index = current.index + beforeEvent.delta,
                         !.transition = None]

\* variant: a push appends after the whole list and keeps the forward entries
mutateKeepingForward(beforeEvent, current, to) ==
    IF beforeEvent.type = "push"
    THEN [entries |-> Append(current.entries, to),
          index |-> Len(current.entries), transition |-> None]
    ELSE IF beforeEvent.type = "replace"
    THEN LET idx == current.index
         IN  [entries |-> SubSeq(current.entries, 1, idx) \o <<to>>
                          \o SubSeq(current.entries, idx + 2, Len(current.entries)),
              index |-> idx, transition |-> None]
    ELSE IF beforeEvent.type = "reload"
    THEN [current EXCEPT !.transition = None]
    ELSE [current EXCEPT !.index = current.index + beforeEvent.delta,
                         !.transition = None]

\* variant: a replace drops the entries after the replaced one
mutateDroppingForward(beforeEvent, current, to) ==
    IF beforeEvent.type = "push"
    THEN LET idx == current.index + 1
         IN  [entries |-> Append(SubSeq(current.entries, 1, idx), to),
              index |-> idx, transition |-> None]
    ELSE IF beforeEvent.type = "replace"
    THEN LET idx == current.index
         IN  [entries |-> SubSeq(current.entries, 1, idx) \o <<to>>,
              index |-> idx, transition |-> None]
    ELSE IF beforeEvent.type = "reload"
    THEN [current EXCEPT !.transition = None]
    ELSE [current EXCEPT !.index = current.index + beforeEvent.delta,
                         !.transition = None]

\* runNavigationEvent, lines 846-869: the new state by event type
mutate(beforeEvent, current, to) ==
    IF beforeEvent.type = "push"
    THEN LET idx == current.index + 1
         IN  [entries |-> Append(SubSeq(current.entries, 1, idx), to),
              index |-> idx, transition |-> None]
    ELSE IF beforeEvent.type = "replace"
    THEN LET idx == current.index
         IN  [entries |-> SubSeq(current.entries, 1, idx) \o <<to>>
                          \o SubSeq(current.entries, idx + 2, Len(current.entries)),
              index |-> idx, transition |-> None]
    ELSE IF beforeEvent.type = "reload"
    THEN [current EXCEPT !.transition = None]
    ELSE [current EXCEPT !.index = current.index + beforeEvent.delta,
                         !.transition = None]

\* variant: an absent key finds the first entry
findIndexOrFirst(es, key) ==
    IF \E k \in 1..Len(es) : es[k].key = key
    THEN (CHOOSE k \in 1..Len(es) :
              es[k].key = key /\ \A m \in 1..(k - 1) : es[m].key # key) - 1
    ELSE 0

\* entries.findIndex(e => e.key === key), 0-based, -1 when absent
findIndex(es, key) ==
    IF \E k \in 1..Len(es) : es[k].key = key
    THEN (CHOOSE k \in 1..Len(es) :
              es[k].key = key /\ \A m \in 1..(k - 1) : es[m].key # key) - 1
    ELSE -1

(***************************************************************************)
(* Initial state: memory(options) with options.entries, currentIndex and   *)
(* maxEntries; initialMemory is the case of one entry.                     *)
(***************************************************************************)
InitUrl(k) == IF k = 1 THEN Url("/a", "")
              ELSE IF k = 2 THEN Url("/b", "")
              ELSE IF k = 3 THEN Url("/a", "#x")
              ELSE Url("/b", "")

InitEntries(n) ==
    [k \in 1..n |-> [id |-> 2 * k - 1, key |-> 2 * k, url |-> InitUrl(k),
                     state |-> Undefined, sameDocument |-> TRUE]]

setupMemory(n, currentIndex) ==
    [entries |-> InitEntries(n), index |-> currentIndex, transition |-> None]

\* the blocking facade's cell: no cell before useBlockNavigation is called
Absent == [tag |-> "Absent"]
Unblocked == [tag |-> "Unblocked"]
Blocked(event, deferred) == [tag |-> "Blocked", event |-> event, deferred |-> deferred]
\* a Deferred not completed yet
Pending == [tag |-> "pending"]

\* options: the maxEntries and entries/currentIndex tried; b: what the
\* environment may do in this behaviour
InitWith(maxOpts, lens, b) ==
    /\ maxEntries \in maxOpts
    /\ base = "/"
    /\ blockState = Absent
    /\ host = NoHost
    /\ \E n \in lens : \E currentIndex \in 0..(n - 1) :
          /\ state = setupMemory(n, currentIndex)
          /\ nextId = 2 * n + 1
    /\ beforeHandlers = <<>>
    /\ handlers = <<>>
    /\ queue = <<>>
    /\ op = IdleOp
    /\ ret = None
    /\ budget = b

Budget(ops, redirects, commitFails, waiting, regs, urls, states, redirectUrls) ==
    [ops |-> ops, redirects |-> redirects, commitFails |-> commitFails,
     waiting |-> waiting, regs |-> regs, urls |-> urls, states |-> states,
     redirectUrls |-> redirectUrls, facades |-> 0, events |-> 0]

\* the same, with calls of useBlockNavigation
WithFacades(b, n) == [b EXCEPT !.facades = n]

\* the same, with events of the window
WithEvents(b, n) == [b EXCEPT !.events = n]

\* Histories of calls on every initial layer, no handler registered
InitHistories ==
    InitWith(1..MaxEntriesOpt, 1..MaxInitEntries,
             Budget(MaxOps, 0, MaxCommitFails, 0, 0, Urls, PlainStates, {}))

\* One call on every initial layer, handlers coming and going
InitOneCall ==
    InitWith(1..MaxEntriesOpt, 1..MaxInitEntries,
             Budget(1, MaxRedirects, MaxCommitFails, 0, MaxRegs, Urls, PlainStates,
                    {Url("/b", "")}))

\* One call on one layer, both registries filled
InitHandlers ==
    InitWith({2}, {2},
             Budget(1, MaxRedirects, 0, 0, 2 * MaxHandlers, {Url("/b", "")},
                    {Undefined}, {Url("/a", "#x")}))

\* One call on one layer, handlers that redirect up to the engine's limit
InitRedirectLoop ==
    InitWith({2}, {2},
             Budget(1, RedirectLimit + 1, 0, 0, 1, {Url("/b", "")}, {Undefined},
                    {Url("/a", "#x")}))

\* Calls issued while another one runs
InitConcurrent ==
    InitWith({MaxEntriesOpt}, {2},
             Budget(MaxOps, 1, 0, MaxWaiting, 1, {Url("/b", "")}, {Undefined},
                    {Url("/a", "#x")}))

\* initialMemory({url, base}): one entry, calls that give paths as strings
initialMemory(url, b) ==
    /\ maxEntries = MaxEntriesOpt
    /\ blockState = Absent
    /\ host = NoHost
    /\ state = [entries |-> <<[id |-> 1, key |-> 2, url |-> url,
                               state |-> Undefined, sameDocument |-> TRUE]>>,
                index |-> 0, transition |-> None]
    /\ nextId = 3
    /\ beforeHandlers = <<>>
    /\ handlers = <<>>
    /\ queue = <<>>
    /\ op = IdleOp
    /\ ret = None
    /\ budget = b

InitBase ==
    /\ base \in {"/", "/foo"}
    /\ initialMemory(Url("/foo/1", ""),
                     Budget(MaxOps, 0, 0, 0, 0, {Path("/2"), Path("/3")},
                            {Undefined}, {}))

\* One call more on one layer, no handler registered
InitRoundTrip ==
    InitWith({MaxEntriesOpt}, {1, 2},
             Budget(MaxOps + 1, 0, 0, 0, 0, {Url("/a", ""), Url("/b", "")},
                    {Undefined}, {}))

\* Calls on a layer where useBlockNavigation may be called
InitBlocking ==
    InitWith({MaxEntriesOpt}, {2},
             WithFacades(Budget(MaxOps, 1, 0, MaxWaiting, 1, {Url("/b", "")}, {Undefined},
                                {Url("/a", "#x")}),
                         1))

\* setupWithHistory, lines 217-229: one entry made of location.href and the
\* raw history.state, which a page loaded before may have left patched
setupWithHistory(initialState, b) ==
    /\ maxEntries = MaxEntriesOpt
    /\ base = "/"
    /\ blockState = Absent
    /\ host = Window(<<[url |-> Url("/a", ""), state |-> initialState]>>, 0)
    \* uuids 1 and 2 are those of the marker an earlier page may have left
    /\ LET made == makeDestination(Url("/a", ""), initialState, Origin, 3)
       IN  /\ state = [entries |-> <<made.dest>>, index |-> 0, transition |-> None]
           /\ nextId = 3 + made.used
    /\ beforeHandlers = <<>>
    /\ handlers = <<>>
    /\ queue = <<>>
    /\ op = IdleOp
    /\ ret = None
    /\ budget = b

\* Calls and window events on a history layer
InitHistory ==
    \E initialState \in {Undefined, PatchedState(1, 2, [tag |-> "plain", value |-> "s1"])} :
        setupWithHistory(initialState,
                         WithEvents(Budget(MaxOps, 0, 0, MaxWaiting, 0,
                                           {Url("/b", "")}, {Undefined}, {}),
                                    MaxEvents))

\* One call and window events on a history layer with handlers and a facade
InitHistoryHandlers ==
    setupWithHistory(PatchedState(1, 2, Undefined),
                     WithFacades(WithEvents(Budget(1, 0, 0, 0, MaxRegs, {Url("/b", "")},
                                                   {Undefined}, {}),
                                            1),
                                 1))

Init ==
    \/ InitBase
    \/ InitHistoryHandlers
    \/ InitRoundTrip
    \/ InitHistory
    \/ InitBlocking
    \/ InitHistories
    \/ InitOneCall
    \/ InitHandlers
    \/ InitRedirectLoop
    \/ InitConcurrent

(***************************************************************************)
(* Handler registration: beforeNavigation / onNavigation and the release   *)
(* of their scopes.                                                        *)
(***************************************************************************)
HandlerIds == 1..MaxHandlers

addEntry(registry, entry) == Append(registry, entry)

deleteEntry(registry, entry) ==
    SelectSeq(registry, LAMBDA e : e # entry)

\* variant: the entry is added to the Set a running loop iterates
BeforeNavigationInPlace(h) ==
    /\ budget.regs > 0
    /\ h \notin Range(beforeHandlers)
    /\ \A g \in HandlerIds : g < h => g \in Range(beforeHandlers)
    /\ Len(beforeHandlers) < MaxHandlers
    /\ beforeHandlers' = addEntry(beforeHandlers, h)
    /\ budget' = [budget EXCEPT !.regs = @ - 1]
    /\ op' = IF op.pc = "before" THEN [op EXCEPT !.snap = Append(@, h)] ELSE op
    /\ UNCHANGED <<state, maxEntries, base, blockState, host, handlers, nextId, queue, ret>>

BeforeNavigation(h) ==
    /\ budget.regs > 0
    /\ h \notin Range(beforeHandlers)
    /\ \A g \in HandlerIds : g < h => g \in Range(beforeHandlers)
    /\ Len(beforeHandlers) < MaxHandlers
    /\ beforeHandlers' = addEntry(beforeHandlers, h)
    /\ budget' = [budget EXCEPT !.regs = @ - 1]
    /\ UNCHANGED <<state, maxEntries, base, blockState, host, handlers, nextId, queue, op, ret>>

ReleaseBefore(h) ==
    /\ budget.regs > 0
    /\ h \in Range(beforeHandlers)
    /\ beforeHandlers' = deleteEntry(beforeHandlers, h)
    /\ budget' = [budget EXCEPT !.regs = @ - 1]
    /\ UNCHANGED <<state, maxEntries, base, blockState, host, handlers, nextId, queue, op, ret>>

OnNavigation(h) ==
    /\ budget.regs > 0
    /\ h \notin Range(handlers)
    /\ \A g \in HandlerIds : g < h => g \in Range(handlers)
    /\ Len(handlers) < MaxHandlers
    /\ handlers' = addEntry(handlers, h)
    /\ budget' = [budget EXCEPT !.regs = @ - 1]
    /\ UNCHANGED <<state, maxEntries, base, blockState, host, beforeHandlers, nextId, queue, op, ret>>

ReleaseAfter(h) ==
    /\ budget.regs > 0
    /\ h \in Range(handlers)
    /\ handlers' = deleteEntry(handlers, h)
    /\ budget' = [budget EXCEPT !.regs = @ - 1]
    /\ UNCHANGED <<state, maxEntries, base, blockState, host, beforeHandlers, nextId, queue, op, ret>>

(***************************************************************************)
(* Calls.  navigate, traverseTo, reload and updateCurrentEntry wait for    *)
(* state.runUpdates; back and forward first read the cell outside it.      *)
(***************************************************************************)
CanCall ==
    /\ budget.ops > 0
    /\ Len(queue) + (IF op.pc = "idle" THEN 0 ELSE 1) <= budget.waiting

Enqueue(r) ==
    /\ CanCall
    /\ queue' = Append(queue, r)
    /\ budget' = [budget EXCEPT !.ops = @ - 1]
    /\ ret' = None
    /\ UNCHANGED <<state, maxEntries, base, blockState, host, beforeHandlers, handlers, nextId, op>>

ReturnNow(via, dest) ==
    /\ budget.ops > 0
    /\ budget' = [budget EXCEPT !.ops = @ - 1]
    /\ ret' = Some([via |-> via, dest |-> dest])
    /\ UNCHANGED <<state, maxEntries, base, blockState, host, beforeHandlers, handlers, nextId, queue, op>>

Navigate(pathOrUrl, history, s) ==
    Enqueue(Request("navigate", "navigate", pathOrUrl, history, s, NoKey))

TraverseTo(key) ==
    Enqueue(Request("traverseTo", "traverseTo", NoUrl, "auto", Undefined, key))

\* back: at index 0 the current entry, else traverseTo(entries[index - 1].key)
backTarget(s) ==
    IF s.index = 0 THEN None ELSE Some(s.entries[s.index].key)

\* forward: at the last index the current entry, else the next entry's key
forwardTarget(s) ==
    IF s.index = Len(s.entries) - 1 THEN None ELSE Some(s.entries[s.index + 2].key)

Back ==
    LET target == backTarget(Get)
    IN  IF isSome(target)
        THEN Enqueue(Request("traverseTo", "back", NoUrl, "auto", Undefined, target[1]))
        ELSE ReturnNow("back", Get.entries[Get.index + 1])

Forward ==
    LET target == forwardTarget(Get)
    IN  IF isSome(target)
        THEN Enqueue(Request("traverseTo", "forward", NoUrl, "auto", Undefined, target[1]))
        ELSE ReturnNow("forward", Get.entries[Get.index + 1])

Reload ==
    Enqueue(Request("reload", "reload", NoUrl, "auto", Undefined, NoKey))

UpdateCurrentEntry(s) ==
    Enqueue(Request("updateCurrentEntry", "updateCurrentEntry", NoUrl, "auto", s,
                    NoKey))

(***************************************************************************)
(* Propose: the head of the queue takes runUpdates, builds its event and   *)
(* enters runNavigationEvent.                                              *)
(***************************************************************************)
\* variant: 'auto' is always a push
navigationTypeAutoPush(history, from, to) ==
    IF history = "auto" THEN "push" ELSE history

\* navigate, line 915: 'auto' is a replace of the current slot when the
\* candidate has the current entry's key, else a push
navigationType(history, from, to) ==
    IF history = "auto"
    THEN (IF from.key = to.key THEN "replace" ELSE "push")
    ELSE history

\* variant: the given state is not taken
withStateIgnored(current, s) == current

\* updateCurrentEntry, line 1035: { ...current, state: options.state }
withState(current, s) == [current EXCEPT !.state = s]

\* variant: a push carries no delta
navigationDeltaZero(type) == IF type = "replace" THEN 0 ELSE 0

\* navigate, line 920: the delta of the event by its type
navigationDelta(type) == IF type = "replace" THEN 0 ELSE 1

\* The event a request proposes in state s, None when it proposes nothing,
\* and the number of uuids drawn
propose(r, s, uid) ==
    LET from == s.entries[s.index + 1]
    IN  IF r.kind = "navigate"
        THEN LET made == makeOrUpdateDestination(s, getUrl(Origin, r.url), r.state,
                                                 Origin, uid)
                 to == made.dest
                 type == navigationType(r.history, from, to)
             IN  [event |-> Some(TransitionEvent(type, from, to,
                                     navigationDelta(type), NoInfo)),
                  used |-> made.used]
        ELSE IF r.kind = "traverseTo"
        THEN LET nextIndex == findIndex(s.entries, r.key)
             IN  IF nextIndex = -1
                 THEN [used |-> 0, event |-> None]
                 ELSE [event |-> Some(TransitionEvent("traverse", from,
                                         [s.entries[nextIndex + 1] EXCEPT !.id = uid],
                                         nextIndex - s.index, NoInfo)),
                       used |-> 1]
        ELSE IF r.kind = "reload"
        THEN [event |-> Some(TransitionEvent("reload", from, from, 0, NoInfo)),
              used |-> 0]
        ELSE [event |-> Some(TransitionEvent("replace", from,
                                 withState(from, r.state), 0, NoInfo)),
              used |-> 0]

Start ==
    /\ op.pc = "idle"
    /\ Len(queue) > 0
    /\ LET r == Head(queue)
           s == Get
           p == propose(r, s, nextId)
           o == [IdleOp EXCEPT !.call = Some(r), !.pre = Some(s), !.orig = p.event,
                               !.last = op.last]
       IN  /\ queue' = Tail(queue)
           /\ nextId' = nextId + p.used
           /\ IF isSome(p.event)
              THEN LET next == runNavigationEvent(o, p.event[1], s, 0, r.skipCommit,
                                                  beforeHandlers)
                   IN  op' = next.op /\ state' = next.state
              ELSE /\ op' = [o EXCEPT !.pc = "done", !.outcome = "noop",
                                      !.result = Some(s.entries[s.index + 1])]
                   /\ state' = state
    /\ UNCHANGED <<maxEntries, base, blockState, host, beforeHandlers, handlers, ret, budget>>

(***************************************************************************)
(* Before: runBeforeHandlers polls the snapshot in order, then runs the    *)
(* deferred effects it collected.  What a handler answers is the           *)
(* environment's choice.                                                   *)
(***************************************************************************)
CancelNavigation == [tag |-> "CancelNavigation"]
RedirectError(path, s) == [tag |-> "RedirectError", path |-> path, state |-> s]
Failures ==
    {CancelNavigation} \cup {RedirectError(u, Undefined) : u \in budget.redirectUrls}

\* bookkeeping: the handler or effect h ran in this phase, with this argument
Logged(o, phase, h, arg) ==
    [o EXCEPT !.log = Append(@, [phase |-> phase, h |-> h, arg |-> arg]),
              !.polls = IF phase = "before"
                        THEN [@ EXCEPT ![Len(@)] = @ + 1]
                        ELSE @]

\* variant: an effect handed over is run before the next handler is polled
polledDeferringAtOnce(o, h, hasMatch) ==
    LET ms == IF hasMatch THEN Append(o.matches, h) ELSE o.matches
        last == o.i >= Len(o.snap)
    IN  [o EXCEPT !.matches = ms,
                  !.i = IF last \/ hasMatch THEN 1 ELSE o.i + 1,
                  !.pc = IF hasMatch THEN "deferred"
                         ELSE IF ~last THEN "before"
                         ELSE IF Len(ms) > 0 THEN "deferred" ELSE "commit"]

\* lines 765-775 and 777: a handler answered None or Some(effect)
polled(o, h, hasMatch) ==
    LET ms == IF hasMatch THEN Append(o.matches, h) ELSE o.matches
        last == o.i >= Len(o.snap)
    IN  [o EXCEPT !.matches = ms,
                  !.i = IF last THEN 1 ELSE o.i + 1,
                  !.pc = IF ~last THEN "before"
                         ELSE IF Len(ms) > 0 THEN "deferred" ELSE "commit"]

\* variant: the first deferred effect to succeed ends the before phase
drainedAtFirst(o) ==
    [o EXCEPT !.i = 1, !.pc = "commit"]

\* lines 778-786: a deferred effect succeeded
drained(o) ==
    LET last == o.i >= Len(o.matches)
    IN  [o EXCEPT !.i = IF last THEN 1 ELSE o.i + 1,
                  !.pc = IF last THEN "commit" ELSE "deferred"]

MayFail(r) ==
    r.tag = "RedirectError" => budget.redirects > 0

Spend(r) ==
    IF r.tag = "RedirectError"
    THEN [budget EXCEPT !.redirects = @ - 1]
    ELSE budget

\* variant: a failure is passed over and the phase goes on
beforeErrorIgnored(o, error, s, uid, bh) ==
    [op |-> IF o.pc = "before" THEN polled(o, 0, FALSE) ELSE drained(o),
     state |-> state, used |-> 0]

\* lines 772-773 and 782-783 with 821-823: the first Left ends
\* runBeforeHandlers, and runNavigationEvent hands it to handleError
beforeError(o, error, s, uid, bh) == handleError(o, error, s, uid, bh)

Fails(o, r) ==
    /\ MayFail(r)
    /\ LET e == beforeError([o EXCEPT !.failure = Some(r),
                                      !.failedAt = Some([n |-> Len(o.snaps),
                                                         phase |-> o.pc,
                                                         i |-> o.i,
                                                         log |-> o.log,
                                                         matches |-> o.matches])],
                            r, Get, nextId, beforeHandlers)
       IN  /\ op' = e.op
           /\ state' = e.state
           /\ nextId' = nextId + e.used
    /\ budget' = Spend(r)

BeforeHandler(r) ==
    /\ op.pc = "before"
    /\ op.snap[op.i] \in HandlerIds
    /\ LET o == Logged(op, "before", op.snap[op.i], op.event[1].to)
       IN  IF r.tag \in {"none", "some"}
           THEN /\ op' = polled(o, op.snap[op.i], r.tag = "some")
                /\ UNCHANGED <<state, nextId, budget>>
           ELSE Fails(o, r)
    /\ UNCHANGED <<maxEntries, base, blockState, host, beforeHandlers, handlers, queue, ret>>

DeferredEffect(r) ==
    /\ op.pc = "deferred"
    /\ op.matches[op.i] \in HandlerIds
    /\ LET o == Logged(op, "deferred", op.matches[op.i], op.event[1].to)
       IN  IF r.tag = "none"
           THEN /\ op' = drained(o)
                /\ UNCHANGED <<state, nextId, budget>>
           ELSE Fails(o, r)
    /\ UNCHANGED <<maxEntries, base, blockState, host, beforeHandlers, handlers, queue, ret>>

(***************************************************************************)
(* The blocking facade: useBlockNavigation registers one before-handler    *)
(* over its own cell blockState; the Blocking value it shows settles the   *)
(* Deferred that the handler's effect awaits.                              *)
(***************************************************************************)
\* the facade's handler in the before registry
BlockHandler == MaxHandlers + 1

Confirmed == [tag |-> "confirm"]
Cancelled == [tag |-> "cancel"]
Redirected(url) == [tag |-> "redirect", url |-> url]

\* variant: cancel and confirm exchanged
blockedToBlockingSwapped(decision) ==
    IF decision.tag = "cancel"
    THEN [tag |-> "success"]
    ELSE IF decision.tag = "confirm"
    THEN [tag |-> "failure", error |-> CancelNavigation]
    ELSE [tag |-> "failure", error |-> RedirectError(decision.url, Undefined)]

\* blockedToBlocking: the exit each action of a Blocking value gives the Deferred
blockedToBlocking(decision) ==
    IF decision.tag = "confirm"
    THEN [tag |-> "success"]
    ELSE IF decision.tag = "cancel"
    THEN [tag |-> "failure", error |-> CancelNavigation]
    ELSE [tag |-> "failure", error |-> RedirectError(decision.url, Undefined)]

\* useBlockNavigation, lines 59-78
UseBlockNavigation ==
    /\ budget.facades > 0
    /\ blockState' = Unblocked
    /\ beforeHandlers' = addEntry(beforeHandlers, BlockHandler)
    /\ budget' = [budget EXCEPT !.facades = @ - 1]
    /\ UNCHANGED <<state, maxEntries, base, host, handlers, nextId, queue, op, ret>>

\* bookkeeping: what the facade's handler did with this event
Answered(o, answer, said) ==
    [o EXCEPT !.block = Append(@, [event |-> o.event[1], answer |-> answer,
                                   said |-> said])]

\* variant: the facade engages whatever shouldBlock gives
engageWhatever(s, answer) ==
    IF s.tag = "Blocked" THEN "twice"
    ELSE IF answer.tag \in {"none", "some"} THEN "blocked"
    ELSE "failed"

\* variant: a Blocked cell is blocked anew
engageAgain(s, answer) ==
    IF answer.tag = "none" THEN "declined"
    ELSE IF answer.tag = "some" THEN "blocked"
    ELSE "failed"

\* lines 66-72: what the facade's handler does in cell state s when
\* params.shouldBlock gives answer
engage(s, answer) ==
    IF s.tag = "Blocked" THEN "twice"
    ELSE IF answer.tag = "none" THEN "declined"
    ELSE IF answer.tag = "some" THEN "blocked"
    ELSE "failed"

\* the facade's handler, lines 63-78: answer is what params.shouldBlock gives
\* (a facade without shouldBlock is one whose shouldBlock always accepts)
ShouldBlock(answer) ==
    /\ op.pc = "before"
    /\ op.snap[op.i] = BlockHandler
    /\ LET did == engage(blockState, answer)
           \* shouldBlock is not asked when the cell is Blocked
           o == Answered(Logged(op, "before", BlockHandler, op.event[1].to), did,
                         IF did = "twice" THEN "unasked" ELSE answer.tag)
       IN  IF did = "twice"
           THEN /\ answer.tag = "some"
                /\ op' = polled(o, BlockHandler, FALSE)
                /\ UNCHANGED <<state, nextId, budget, blockState>>
           ELSE IF did = "declined"
           THEN /\ op' = polled(o, BlockHandler, FALSE)
                /\ UNCHANGED <<state, nextId, budget, blockState>>
           ELSE IF did = "blocked"
           THEN /\ blockState' = Blocked(op.event[1], Pending)
                /\ op' = polled(o, BlockHandler, TRUE)
                /\ UNCHANGED <<state, nextId, budget>>
           ELSE /\ Fails(o, answer)
                /\ UNCHANGED blockState
    /\ UNCHANGED <<maxEntries, base, host, beforeHandlers, handlers, queue, ret>>

\* Deferred.await(updated.deferred), line 75: resumes once the Deferred is done
AwaitDeferred ==
    /\ op.pc = "deferred"
    /\ op.matches[op.i] = BlockHandler
    /\ blockState.deferred # Pending
    /\ LET o == [Logged(op, "deferred", BlockHandler, op.event[1].to)
                    EXCEPT !.awaited = Some(blockState.deferred.by)]
           exit == blockState.deferred.exit
       IN  IF exit.tag = "success"
           THEN /\ op' = drained(o)
                /\ UNCHANGED <<state, nextId, budget>>
           ELSE Fails(o, exit.error)
    /\ UNCHANGED <<maxEntries, base, blockState, host, beforeHandlers, handlers, queue, ret>>

\* an action of the Blocking value, lines 99-113: a Deferred already done
\* ignores it; `by` is bookkeeping
settle(decision) ==
    /\ blockState.tag = "Blocked"
    /\ blockState' =
          IF blockState.deferred = Pending
          THEN [blockState EXCEPT !.deferred =
                    [tag |-> "done", by |-> decision,
                     exit |-> blockedToBlocking(decision)]]
          ELSE blockState
    /\ UNCHANGED <<state, maxEntries, base, host, beforeHandlers, handlers, nextId,
                   queue, op, ret, budget>>

Confirm == settle(Confirmed)

Cancel == settle(Cancelled)

Redirect(url) ==
    /\ budget.redirects > 0
    /\ settle(Redirected(url))

(***************************************************************************)
(* Commit, Mutate, After.                                                  *)
(***************************************************************************)
\* the commit of a history layer, part_007 lines 231-270, on the window h;
\* history.go moves within the session history and is ignored out of it
commit(h, to, event) ==
    LET marker == PatchedState(to.id, to.key, to.state)
    IN  IF event.type = "push"
        THEN Window(Append(SubSeq(h.slots, 1, h.at + 1),
                           [url |-> to.url, state |-> marker]),
                    h.at + 1)
        ELSE IF event.type = "replace"
        THEN Window([h.slots EXCEPT ![h.at + 1] = [url |-> to.url, state |-> marker]],
                    h.at)
        ELSE IF event.type = "reload"
        THEN h
        ELSE LET j == h.at + event.delta
                 at == IF j \in 0..(Len(h.slots) - 1) THEN j ELSE h.at
             IN  Window([h.slots EXCEPT ![at + 1].state = marker], at)

\* variant: commit is invoked whatever skipCommit says
CommitUnskipped(ok) ==
    /\ op.pc = "commit"
    /\ LET ev == op.event[1]
           upgrade == ~isDestination(ev.to)
           to == IF upgrade THEN upgradeProposedDestination(ev.to, nextId) ELSE ev.to
       IN  /\ nextId' = IF upgrade THEN nextId + 2 ELSE nextId
           /\ IF ok
              THEN /\ op' = [op EXCEPT !.pc = "mutate", !.to = Some(to),
                                       !.nCommits = @ + 1]
                   /\ budget' = budget
                   /\ host' = IF host = NoHost THEN host ELSE commit(host, to, ev)
              ELSE /\ host = NoHost
                   /\ host' = host
                   /\ budget.commitFails > 0
                   /\ budget' = [budget EXCEPT !.commitFails = @ - 1]
                   /\ op' = [op EXCEPT !.pc = "done", !.outcome = "failed",
                                       !.to = Some(to), !.nCommits = @ + 1]
    /\ UNCHANGED <<state, maxEntries, base, blockState, beforeHandlers, handlers, queue,
                   ret>>

\* lines 827-833; the commit of a memory layer is the caller's and may fail
Commit(ok) ==
    /\ op.pc = "commit"
    /\ LET ev == op.event[1]
           upgrade == ~isDestination(ev.to)
           to == IF upgrade THEN upgradeProposedDestination(ev.to, nextId) ELSE ev.to
       IN  /\ nextId' = IF upgrade THEN nextId + 2 ELSE nextId
           /\ IF op.skipCommit
              THEN /\ ok
                   /\ op' = [op EXCEPT !.pc = "mutate", !.to = Some(to)]
                   /\ budget' = budget
                   /\ host' = host
              ELSE IF ok
              THEN /\ op' = [op EXCEPT !.pc = "mutate", !.to = Some(to),
                                       !.nCommits = @ + 1]
                   /\ budget' = budget
                   /\ host' = IF host = NoHost THEN host ELSE commit(host, to, ev)
              ELSE /\ host = NoHost
                   /\ host' = host
                   /\ budget.commitFails > 0
                   /\ budget' = [budget EXCEPT !.commitFails = @ - 1]
                   /\ op' = [op EXCEPT !.pc = "done", !.outcome = "failed",
                                       !.to = Some(to), !.nCommits = @ + 1]
    /\ UNCHANGED <<state, maxEntries, base, blockState, beforeHandlers, handlers, queue,
                   ret>>

\* lines 840-844: the event the after-handlers receive
NavigationEvent(o) ==
    [type |-> o.event[1].type, info |-> o.event[1].info, destination |-> o.to[1]]

\* variant: the after phase is skipped
startHandlersSkipped(o, hs) ==
    [o EXCEPT !.pc = "done", !.outcome = "committed", !.result = o.to,
              !.snap = hs, !.i = 1, !.matches = <<>>]

\* runHandlers starts on a snapshot of the after registry
startHandlers(o, hs) ==
    IF Len(hs) = 0
    THEN [o EXCEPT !.pc = "done", !.outcome = "committed", !.result = o.to,
                   !.snap = hs, !.i = 1, !.matches = <<>>]
    ELSE [o EXCEPT !.pc = "after", !.snap = hs, !.i = 1, !.matches = <<>>]

\* lines 840-871
Mutate ==
    /\ op.pc = "mutate"
    /\ state' = Stored(mutate(op.event[1], op.current[1], op.to[1]))
    /\ op' = startHandlers(op, handlers)
    /\ UNCHANGED <<maxEntries, base, blockState, host, beforeHandlers, handlers, nextId, queue, ret, budget>>

\* lines 794-803: an after-handler answered None or Some(effect)
handled(o, h, hasMatch) ==
    LET ms == IF hasMatch THEN Append(o.matches, h) ELSE o.matches
        last == o.i >= Len(o.snap)
    IN  IF last /\ Len(ms) = 0
        THEN [o EXCEPT !.pc = "done", !.outcome = "committed", !.result = o.to,
                       !.matches = ms, !.i = 1]
        ELSE [o EXCEPT !.matches = ms,
                       !.i = IF last THEN 1 ELSE o.i + 1,
                       !.pc = IF last THEN "afterDeferred" ELSE "after"]

\* Effect.all(matches, { discard: true }): one effect after the other
discarded(o) ==
    IF o.i >= Len(o.matches)
    THEN [o EXCEPT !.pc = "done", !.outcome = "committed", !.result = o.to, !.i = 1]
    ELSE [o EXCEPT !.i = o.i + 1]

AfterHandler(hasMatch) ==
    /\ op.pc = "after"
    /\ op' = handled(Logged(op, "after", op.snap[op.i], NavigationEvent(op).destination),
                     op.snap[op.i], hasMatch)
    /\ UNCHANGED <<state, maxEntries, base, blockState, host, beforeHandlers, handlers, nextId, queue, ret,
                   budget>>

AfterDeferred ==
    /\ op.pc = "afterDeferred"
    /\ op' = discarded(Logged(op, "afterDeferred", op.matches[op.i],
                               NavigationEvent(op).destination))
    /\ UNCHANGED <<state, maxEntries, base, blockState, host, beforeHandlers, handlers, nextId, queue, ret,
                   budget>>

\* the call returns (or fails) and releases runUpdates
\* and handleHistoryEvent, part_007 lines 75-78, goes on to its second call
Finish ==
    /\ op.pc = "done"
    /\ op' = [IdleOp EXCEPT !.last = Some([call |-> op.call[1], pre |-> op.pre[1],
                                            outcome |-> op.outcome,
                                            depth |-> op.depth])]
    /\ LET r == op.call[1]
       IN  queue' = IF isSome(r.andThen) /\ op.outcome \in {"committed", "noop"}
                    THEN Append(queue,
                                [Request("updateCurrentEntry", r.via, NoUrl, "auto",
                                         r.andThen[1], NoKey)
                                   EXCEPT !.marker = r.marker,
                                          !.quiet = r.quiet /\ queue = <<>>])
                    ELSE queue
    /\ UNCHANGED <<state, maxEntries, base, blockState, host, beforeHandlers, handlers,
                   nextId, ret, budget>>

(***************************************************************************)
(* The window's events under a history layer, part_007 lines 379-406, each *)
(* handled by handleHistoryEvent, lines 52-81.                             *)
(***************************************************************************)
Hashes == {"", "#x"}

\* onEvent: the handler's fiber calls the engine, and waits for runUpdates
Hosted(r, skipCommit, andThen, marker) ==
    /\ host # NoHost
    /\ budget.events > 0
    /\ Len(queue) + (IF op.pc = "idle" THEN 0 ELSE 1) <= budget.waiting
    /\ budget' = [budget EXCEPT !.events = @ - 1]
    /\ queue' = Append(queue, [r EXCEPT !.skipCommit = skipCommit,
                                        !.andThen = andThen,
                                        !.marker = marker,
                                        !.quiet = /\ op.pc = "idle"
                                                  /\ queue = <<>>
                                                  /\ host.slots[host.at + 1].url =
                                                        currentEntry.url])
    /\ UNCHANGED <<state, maxEntries, base, blockState, beforeHandlers, handlers,
                   nextId, op, ret>>

\* the user goes back or forward to slot j, and the window fires popstate
\* with that slot's state: onPopState, lines 390-406
PopState(j) ==
    /\ host # NoHost
    /\ j \in 0..(Len(host.slots) - 1)
    /\ j # host.at
    /\ host' = [host EXCEPT !.at = j]
    /\ LET slot == host.slots[j + 1]
       IN  IF isPatchedState(slot.state)
           THEN Hosted(Request("traverseTo", "popstate", NoUrl, "auto", Undefined,
                               slot.state.key),
                       TRUE, Some(slot.state.inner), Some(slot.state))
           ELSE Hosted(Request("navigate", "popstate", slot.url, "replace",
                               slot.state, NoKey),
                       TRUE, None, None)

\* the window fires hashchange for its location with another hash:
\* onHashChange, lines 379-386; history.state is read through the patched
\* getter, lines 429-432
HashChange(hash) ==
    /\ host # NoHost
    /\ LET slot == host.slots[host.at + 1]
       IN  /\ hash # slot.url.hash
           /\ Hosted(Request("navigate", "hashchange", [slot.url EXCEPT !.hash = hash],
                              "replace", getOriginalState(slot.state), NoKey),
                      FALSE, None, None)
    /\ host' = host

\* the page calls the patched history.pushState(s, _, url) with a url: the
\* shim, lines 342-349, emits PushState and touches no window state, and
\* handleHistoryEvent, lines 54-55, calls navigate(event.url, {}, skipCommit)
PushState(s, url) ==
    /\ host # NoHost
    /\ Hosted([Request("navigate", "pushState", url, "auto", Undefined, NoKey)
                 EXCEPT !.given = Some(s)],
              FALSE, None, None)
    /\ host' = host

\* the patched getter of history.state, part_007 lines 429-432, where the
\* window holds a state
historyState(h) == getOriginalState(h.slots[h.at + 1].state)

Keys(s) == {s.entries[k].key : k \in 1..Len(s.entries)}

Next ==
    \/ \E h \in HandlerIds : BeforeNavigation(h)
    \/ \E h \in HandlerIds : ReleaseBefore(h)
    \/ \E h \in HandlerIds : OnNavigation(h)
    \/ \E h \in HandlerIds : ReleaseAfter(h)
    \/ \E u \in budget.urls, hi \in Histories, s \in budget.states : Navigate(u, hi, s)
    \/ \E k \in Keys(Get) \cup UnknownKeys : TraverseTo(k)
    \/ Back
    \/ Forward
    \/ Reload
    \/ \E s \in budget.states : UpdateCurrentEntry(s)
    \/ Start
    \/ \E r \in {[tag |-> "none"], [tag |-> "some"]} \cup Failures : BeforeHandler(r)
    \/ \E r \in {[tag |-> "none"]} \cup Failures : DeferredEffect(r)
    \/ UseBlockNavigation
    \/ \E r \in {[tag |-> "none"], [tag |-> "some"]} \cup Failures : ShouldBlock(r)
    \/ AwaitDeferred
    \/ Confirm
    \/ Cancel
    \/ \E u \in budget.redirectUrls : Redirect(u)
    \/ \E ok \in BOOLEAN : Commit(ok)
    \/ Mutate
    \/ \E hasMatch \in BOOLEAN : AfterHandler(hasMatch)
    \/ AfterDeferred
    \/ Finish
    \/ \E j \in 0..MaxOps : PopState(j)
    \/ \E hash \in Hashes : HashChange(hash)
    \/ \E s \in PlainStates, u \in budget.urls : PushState(s, u)

Spec == Init /\ [][Next]_vars

(***************************************************************************)
(* Properties.                                                             *)
(***************************************************************************)
Pre == op.pre[1]
Event == op.event[1]
To == op.to[1]
\* the running call has written its new entries and index
Mutated ==
    \/ op.pc \in {"after", "afterDeferred"}
    \/ op.pc = "done" /\ op.outcome = "committed"
Ended(outcome) == op.pc = "done" /\ op.outcome = outcome
Ids(es) == {es[k].id : k \in 1..Len(es)}
Ran(phase) == SelectSeq(op.log, LAMBDA e : e.phase = phase)
HandlersOf(l) == [k \in 1..Len(l) |-> l[k].h]

\* C1: whatever calls were made, committed, cancelled or redirected, the cell
\* reads a non-empty entries list and an index inside it.
C1_IndexInRange ==
    /\ Len(Get.entries) >= 1
    /\ 0 <= Get.index
    /\ Get.index < Len(Get.entries)

\* a push committed at the last slot of a full list, where index + 1 would
\* leave the list
C1_Witness ==
    /\ Ended("committed")
    /\ Event.type = "push"
    /\ maxEntries >= 2
    /\ Pre.index = maxEntries - 1

\* C2: in memory mode every state read from the cell, and every state written
\* to it, holds at most maxEntries entries.
C2_AtMostMaxEntries ==
    /\ [](host = NoHost => Len(Get.entries) <= maxEntries)
    /\ [](host = NoHost /\ isSome(op.current) =>
            Len(op.current[1].entries) <= maxEntries)
    /\ [][host = NoHost /\ state' # state =>
            Len(state'.entries) <= maxEntries]_vars

\* a push committed with maxEntries = 1: the write keeps the target alone
C2_Witness ==
    /\ Mutated
    /\ Event.type = "push"
    /\ maxEntries = 1
    /\ state.entries = <<To>>

\* C3: a committed push keeps entries[0..index], appends the target, keeps the
\* last maxEntries of that (a memory layer's option; a history layer has no
\* such limit), and the target is the current entry.
C3_Push ==
    (Mutated /\ Event.type = "push") =>
        LET kept == SubSeq(Pre.entries, 1, Pre.index + 1) \o <<op.orig[1].to>>
            limit == IF host = NoHost THEN maxEntries ELSE Len(kept)
        IN  /\ Get.entries = sliceLast(kept, limit)
            /\ Len(Get.entries) = Min(Pre.index + 2, limit)
            /\ currentEntry = op.orig[1].to
            /\ Get.index = Len(Get.entries) - 1

\* the push that evicts the oldest entry of a full list of three
C3_Witness ==
    /\ Mutated
    /\ Event.type = "push"
    /\ maxEntries = 3
    /\ Len(Pre.entries) = 3
    /\ Pre.index = 2
    /\ Get.entries[1] = Pre.entries[2]

\* C4: a committed replace keeps the length and the index and changes only
\* entries[index], which becomes the committed destination.
C4_Replace ==
    (Mutated /\ Event.type = "replace") =>
        /\ Len(Get.entries) = Len(Pre.entries)
        /\ Get.index = Pre.index
        /\ currentEntry = To
        /\ \A k \in 1..Len(Pre.entries) :
              k # Pre.index + 1 => Get.entries[k] = Pre.entries[k]

\* a replace in the middle of three entries
C4_Witness ==
    /\ Mutated
    /\ Event.type = "replace"
    /\ Len(Pre.entries) = 3
    /\ Pre.index = 1
    /\ currentEntry # Pre.entries[2]

\* C5 as stated: a committed traverseTo(key) leaves entries unchanged, moves
\* index to the entry with that key, with delta = target - current, and returns
\* the target's key, url and state under a new id; traverseTo(current.key)
\* leaves entries and index unchanged.
C5_TraverseTo ==
    (Mutated /\ Event.type = "traverse") =>
        LET key == op.call[1].key
        IN  /\ Get.entries = Pre.entries
            /\ currentEntry.key = key
            /\ Event.delta = Get.index - Pre.index
            /\ To.key = key
            /\ To.url = currentEntry.url
            /\ To.state = currentEntry.state
            /\ To.id \notin Ids(Pre.entries)
            /\ key = Pre.entries[Pre.index + 1].key => Get.index = Pre.index

\* C6: back at index 0, forward at the last index and traverseTo with a key of
\* no entry return the current entry and leave the navigation state as it is:
\* no transition is published, no handler runs, nothing is committed.
C6_NoOps ==
    /\ [][budget'.ops < budget.ops =>
            LET last == Len(Get.entries) - 1
            IN  IF isSome(ret')
                THEN /\ UNCHANGED <<state, op, queue, nextId>>
                     /\ ret'[1].dest = currentEntry
                     /\ \/ ret'[1].via = "back" /\ Get.index = 0
                        \/ ret'[1].via = "forward" /\ Get.index = last
                ELSE LET r == queue'[Len(queue')]
                     IN  /\ r.via = "back" => Get.index # 0
                         /\ r.via = "forward" => Get.index # last]_vars
    /\ [][(op.pc = "idle" /\ op'.pc # "idle" /\ op'.call[1].kind = "traverseTo"
              /\ op'.call[1].key \notin Keys(Get)) =>
            /\ UNCHANGED <<state, nextId>>
            /\ op'.pc = "done"
            /\ op'.result = Some(currentEntry)
            /\ op'.log = <<>>
            /\ op'.nEvents = 0
            /\ op'.nCommits = 0]_vars
    /\ [](Ended("noop") => Get = Pre /\ op.result = Some(currentEntry))

\* traverseTo with a key of no entry has returned, and forward was called at
\* the last index of a list of several entries
C6_Witness ==
    /\ Ended("noop")
    /\ op.call[1].key \notin Keys(Get)
    /\ isSome(ret)
    /\ ret[1].via = "forward"
    /\ Get.index > 0

\* C7: a call redirected by a before-handler or a deferred effect commits as a
\* replace at the redirect target: length and index as before the call,
\* entries[index] at the redirect URL, the other entries untouched, and the
\* destination first asked for is not in entries.
C7_Redirect ==
    /\ (op.depth >= 1 /\ op.pc # "done") =>
          /\ Event.type = "replace"
          /\ Event.delta = 0
          /\ Event.to.url = op.failure[1].path
          /\ ~Mutated => Get.entries = Pre.entries /\ Get.index = Pre.index
    /\ (Mutated /\ op.depth >= 1) =>
          /\ Len(Get.entries) = Len(Pre.entries)
          /\ Get.index = Pre.index
          /\ currentEntry.url = op.failure[1].path
          /\ currentEntry = Event.to
          /\ \A k \in 1..Len(Pre.entries) :
                k # Pre.index + 1 => Get.entries[k] = Pre.entries[k]
          /\ op.orig[1].to \notin Range(Get.entries)

\* a push from the first of several entries, redirected once and committed
C7_Witness ==
    /\ Ended("committed")
    /\ op.depth = 1
    /\ op.orig[1].type = "push"
    /\ Pre.index = 0
    /\ Len(Pre.entries) >= 2
    /\ op.orig[1].to.url # currentEntry.url

\* C8 as stated: a call whose before-handler or deferred effect fails with
\* Cancel, for the event first proposed or for a redirect event, returns the
\* current entry with entries and index as before the call, transition None,
\* no commit and no after-handler.
C8_Cancel ==
    (op.pc = "done" /\ isSome(op.failure) /\ op.failure[1] = CancelNavigation) =>
        /\ op.outcome = "cancelled"
        /\ op.result = Some(currentEntry)
        /\ Get.entries = Pre.entries
        /\ Get.index = Pre.index
        /\ Get.transition = None
        /\ op.nCommits = 0
        /\ Ran("after") = <<>>
        /\ Ran("afterDeferred") = <<>>

\* C9: after-handlers run only for a committed destination; in a call
\* redirected once the before-handlers are polled once for the event first
\* proposed and once for the redirect event, and the after-handlers run
\* exactly once, with the redirect destination.
C9_AfterOnlyCommitted ==
    /\ (Ran("after") # <<>> \/ Ran("afterDeferred") # <<>>) =>
          /\ Mutated
          \* (a call told to skip its commit writes in the place of one)
          /\ op.nCommits = 1 \/ op.skipCommit
          /\ Get.transition = None
          /\ \A k \in 1..Len(op.log) :
                op.log[k].phase \in {"after", "afterDeferred"} => op.log[k].arg = To
    /\ (Ended("committed") /\ op.depth = 1) =>
          /\ op.nEvents = 2
          /\ Len(op.polls) = 2
          /\ op.polls[1] >= 1
          /\ op.polls[1] <= Len(op.snaps[1])
          /\ op.polls[2] = Len(op.snaps[2])
          /\ HandlersOf(Ran("before")) = op.snaps[2]
          /\ \A k \in 1..Len(op.log) :
                op.log[k].phase = "before" => op.log[k].arg = Event.to
          /\ HandlersOf(Ran("after")) = op.snap
          /\ To.url = op.failure[1].path
          /\ op.nCommits = 1

\* two before-handlers and an after-handler, one redirect, committed
C9_Witness ==
    /\ Ended("committed")
    /\ op.depth = 1
    /\ Len(op.snaps[1]) = 2
    /\ op.polls[1] = 2
    /\ Len(op.snaps[2]) = 2
    /\ Len(Ran("after")) >= 1

\* C10: a committed call that was neither redirected nor cancelled has polled
\* every registered before-handler once and every registered after-handler
\* once, and every deferred effect of the before phase completed before the
\* commit, so before any after-handler or after-handler's effect.
C10_EveryHandlerOnce ==
    /\ (op.pc = "commit" /\ ~op.skipCommit) =>
          /\ HandlersOf(Ran("before")) = op.snap
          /\ HandlersOf(Ran("deferred")) = op.matches
          /\ op.log = Ran("before") \o Ran("deferred")
    /\ (Ended("committed") /\ op.depth = 0 /\ ~op.skipCommit) =>
          /\ HandlersOf(Ran("before")) = op.snaps[1]
          /\ HandlersOf(Ran("after")) = op.snap
          /\ Range(HandlersOf(Ran("deferred"))) \subseteq Range(op.snaps[1])
          /\ Range(HandlersOf(Ran("afterDeferred"))) \subseteq Range(op.snap)
          /\ op.log = Ran("before") \o Ran("deferred") \o Ran("after")
                        \o Ran("afterDeferred")
          /\ op.nCommits = 1

\* two before-handlers with a deferred effect each, two after-handlers with
\* an effect, committed without redirect
C10_Witness ==
    /\ Ended("committed")
    /\ op.depth = 0
    /\ ~op.skipCommit
    /\ Len(op.snaps[1]) = 2
    /\ Len(Ran("deferred")) = 2
    /\ Len(op.snap) = 2
    /\ Len(Ran("afterDeferred")) >= 1

\* C11 as stated: transition is Some(event) exactly while a call is between
\* proposing its event and the end of its state write, and None whenever no
\* call is executing: after a call has finished, by success, cancel, failure
\* or fatal error, the cell holds transition = None.
C11_TransitionWhileInFlight ==
    /\ op.pc \in {"before", "deferred", "commit", "mutate"} =>
          Get.transition = op.event
    /\ op.pc \in {"idle", "done", "after", "afterDeferred"} =>
          Get.transition = None

\* C12: while the before-handlers and their deferred effects run for an
\* event, the cell shows the history of before the call: the current entry is
\* event.from, entries and index are those before the call, and they change
\* only in the write that follows commit (or the place of a skipped commit).
C12_PreNavigationHistory ==
    /\ [](op.pc \in {"before", "deferred", "commit"} =>
            /\ currentEntry = Event.from
            /\ Get.entries = Pre.entries
            /\ Get.index = Pre.index)
    /\ [][(Get.entries' # Get.entries \/ Get.index' # Get.index) =>
            op.pc = "mutate" /\ (op.nCommits = 1 \/ op.skipCommit)]_vars

\* a push whose before-handlers have run and whose deferred effects are
\* running, the target not yet the current entry
C12_Witness ==
    /\ op.pc = "deferred"
    /\ Event.type = "push"
    /\ Len(Ran("before")) = 2
    /\ Len(Ran("deferred")) = 1
    /\ currentEntry # Event.to

\* C15: calls are linearized. A call starts only when no other call is
\* running, and it is the oldest waiting one; nothing touches the cell between
\* the end of one call and the start of the next; so of two navigate calls the
\* second proposes its event only after the first has finished its write, and
\* the second's from is the entry the first committed.
C15_Linearized ==
    /\ [][(op'.call # op.call /\ isSome(op'.call)) =>
            /\ op.pc = "idle"
            /\ queue # <<>>
            /\ op'.call[1] = Head(queue)
            /\ queue' = Tail(queue)
            /\ isSome(op'.event) => op'.event[1].from = currentEntry]_vars
    /\ [][(op.pc \in {"done", "idle"} /\ op'.pc = "idle") => state' = state]_vars
    /\ []((/\ Ended("committed")
           /\ op.call[1].kind = "navigate"
           /\ queue # <<>>
           /\ Head(queue).kind = "navigate") =>
            propose(Head(queue), Get, nextId).event[1].from = op.result[1])

\* the first navigate has committed a push while a second navigate waits
C15_Witness ==
    /\ Ended("committed")
    /\ op.call[1].kind = "navigate"
    /\ Event.type = "push"
    /\ currentEntry = To
    /\ queue # <<>>
    /\ Head(queue).kind = "navigate"

\* C16 as stated: when commit fails the call fails with a NavigationError, the
\* entries and index are those of before the call, the transition is cleared
\* to None, and no after-handler is invoked.
C16_CommitFailure ==
    Ended("failed") =>
        /\ Get.entries = Pre.entries
        /\ Get.index = Pre.index
        /\ Ran("after") = <<>>
        /\ Ran("afterDeferred") = <<>>
        /\ Get.transition = None

\* C17: redirect recursion is bounded. The depth never passes 25 and a call
\* runs at most 26 events; a call dies with 'Redirect loop detected' only with
\* a handler failure at depth 25, and every handler failure at depth 25 ends
\* it so; a call that ends below depth 25 has completed (or failed at commit).
C17_RedirectBound ==
    /\ op.depth <= RedirectLimit
    /\ op.nEvents <= RedirectLimit + 1
    /\ Ended("died") => op.depth = RedirectLimit /\ op.nCommits = 0
    /\ (op.pc = "done" /\ op.depth = RedirectLimit /\ op.nCommits = 0) =>
          op.outcome = "died"
    /\ (op.pc = "done" /\ op.depth < RedirectLimit) =>
          /\ op.outcome \in {"committed", "cancelled", "failed", "noop"}
          /\ op.outcome = "failed" => op.nCommits = 1

\* a call whose every event was redirected, dead at depth 25
C17_Witness ==
    /\ Ended("died")
    /\ op.depth = RedirectLimit
    /\ op.nEvents = RedirectLimit + 1

\* a chain of redirects that ended in an event nobody redirected
C17_WitnessCompleted ==
    /\ Ended("committed")
    /\ op.depth >= 2
    /\ op.depth < RedirectLimit

\* C18 as stated: navigate with a path resolves it against the layer's base:
\* with base '/foo', navigate('/2') makes the URL origin + '/foo/2' the
\* current entry's (and with base '/', origin + '/2').
C18_RelativeToBase ==
    (/\ Ended("committed")
     /\ op.call[1].kind = "navigate"
     /\ "path" \in DOMAIN op.call[1].url) =>
        currentEntry.url =
            Url(IF base = "/" THEN op.call[1].url.path
                ELSE base \o op.call[1].url.path, "")

\* the facade's handler was the only before-handler of every event of the call
FacadeAlone == \A k \in 1..Len(op.snaps) : op.snaps[k] = <<BlockHandler>>

\* the facade blocked an event of the running call
BlockedHere == \E k \in 1..Len(op.block) : op.block[k].answer = "blocked"

C13_WitnessConfirm ==
    /\ Ended("committed")
    /\ FacadeAlone
    /\ op.awaited = Some(Confirmed)
    /\ blockState.event.type = "push"
    /\ currentEntry = blockState.event.to

\* a blocked push redirected
C13_WitnessRedirect ==
    /\ Ended("committed")
    /\ FacadeAlone
    /\ isSome(op.awaited)
    /\ op.awaited[1].tag = "redirect"
    /\ blockState.event.type = "push"

\* C14 as stated: once the blocked transition is settled and its call has
\* ended the facade's cell is Unblocked again, and the facade abstains only
\* from the later events of a call it has already blocked: every other event
\* that shouldBlock accepts is blocked.
C14_BlocksAgain ==
    /\ op.pc = "idle" => blockState.tag # "Blocked"
    /\ \A k \in 1..Len(op.block) :
          op.block[k].answer = "twice" =>
              \E j \in 1..(k - 1) : op.block[j].answer = "blocked"

\* the call that ends the handling of a popstate which carried a marker,
\* fired while no call was running or waiting and the window stood at the
\* current entry; the window still stands where the popstate left it
PopStateHandled ==
    /\ Ended("committed")
    /\ op.depth = 0
    /\ op.call[1].via = "popstate"
    /\ op.call[1].kind = "updateCurrentEntry"
    /\ op.call[1].quiet
    /\ isSome(op.call[1].marker)
    /\ op.call[1].marker[1].key \in Keys(Pre)
    /\ isPatchedState(host.slots[host.at + 1].state)
    /\ host.slots[host.at + 1].state.key = op.call[1].marker[1].key

\* C19 as stated: once a popstate that carried a patched marker {id, key,
\* state} whose key is an entry's has been handled, the current entry is that
\* entry, at its position, with the marker's key and id and the marker's
\* state, the entries are as many as before, and the marker the window holds
\* has the marker's state.
C19_PopState ==
    PopStateHandled =>
        LET marker == op.call[1].marker[1]
        IN  /\ Get.index = findIndex(Pre.entries, marker.key)
            /\ Len(Get.entries) = Len(Pre.entries)
            /\ currentEntry.key = marker.key
            /\ currentEntry.state = marker.inner
            /\ host.slots[host.at + 1].state.inner = marker.inner
            /\ currentEntry.id = marker.id

\* the call which handles a hashchange, fired while no call was running or
\* waiting and the window stood at the current entry, has committed,
\* unredirected
HashChangeHandled ==
    /\ Ended("committed")
    /\ op.depth = 0
    /\ op.call[1].via = "hashchange"
    /\ op.call[1].quiet

C21_AutoHistory ==
    (isSome(op.call) /\ op.call[1].kind = "navigate" /\ isSome(op.orig)) =>
        LET r == op.call[1]
            e == op.orig[1]
            from == Pre.entries[Pre.index + 1]
            sameSlot == /\ e.to.url.origin = from.url.origin
                        /\ e.to.url.pathname = from.url.pathname
        IN  /\ e.from = from
            /\ (e.to.key = from.key) <=> sameSlot
            /\ r.history = "auto" =>
                   e.type = (IF sameSlot THEN "replace" ELSE "push")
            /\ r.history # "auto" => e.type = r.history

C21_Witness ==
    /\ isSome(op.call) /\ op.call[1].kind = "navigate"
    /\ op.call[1].via = "navigate"
    /\ op.call[1].history = "auto"
    /\ Ended("committed")
    /\ op.orig[1].type = "replace"
    /\ op.orig[1].to.url # op.orig[1].from.url

C21_WitnessPush ==
    /\ isSome(op.call) /\ op.call[1].kind = "navigate"
    /\ op.call[1].history = "auto"
    /\ Ended("committed")
    /\ op.orig[1].type = "push"

\* the call that just ended was made on the state the call before it left
After(via, before) ==
    /\ isSome(op.call) /\ op.call[1].via = via
    /\ op.pc = "done"
    /\ isSome(op.last) /\ op.last[1].call.via = before

\* C22: from an index above 0, back() and then forward(), both committed with
\* no handler cancelling or redirecting, leave the index where it was and
\* the entries with the same key, url and state at every position.
C22_BackForward ==
    (/\ After("forward", "back")
     /\ op.last[1].outcome = "committed" /\ op.last[1].depth = 0
     /\ op.outcome = "committed" /\ op.depth = 0
     /\ op.last[1].pre.index > 0
     \* forward() read the state that back() left
     /\ Pre.index < Len(Pre.entries) - 1
     /\ op.call[1].key = Pre.entries[Pre.index + 2].key) =>
        LET before == op.last[1].pre
        IN  /\ Get.index = before.index
            /\ Len(Get.entries) = Len(before.entries)
            /\ \A k \in 1..Len(before.entries) :
                   /\ Get.entries[k].key = before.entries[k].key
                   /\ Get.entries[k].url = before.entries[k].url
                   /\ Get.entries[k].state = before.entries[k].state

\* navigate(u, {history: 'replace'}) committed twice in a row with the same u
ReplacedTwice ==
    /\ After("navigate", "navigate")
    /\ op.call[1].history = "replace" /\ op.last[1].call.history = "replace"
    /\ op.call[1].url = op.last[1].call.url
    /\ op.call[1].state = op.last[1].call.state
    /\ op.last[1].outcome = "committed" /\ op.last[1].depth = 0
    /\ op.outcome = "committed" /\ op.depth = 0

\* C23: navigate(u, {history: 'replace'}) committed a second time with the
\* same u leaves as many entries, the same index and the same key and url at
\* every position as the first time left, and the current entry's id is one
\* that no entry had before either call.
C23_ReplaceIdempotent ==
    ReplacedTwice =>
        LET once == Pre
            first == op.last[1].pre
        IN  /\ Len(Get.entries) = Len(once.entries)
            /\ Get.index = once.index
            /\ \A k \in 1..Len(once.entries) :
                   /\ Get.entries[k].key = once.entries[k].key
                   /\ Get.entries[k].url = once.entries[k].url
            /\ currentEntry.id \notin Ids(once.entries) \cup Ids(first.entries)
            /\ once.entries[once.index + 1].id \notin Ids(first.entries)

C23_Witness ==
    /\ ReplacedTwice
    /\ LET first == op.last[1].pre
       IN  /\ Len(first.entries) > 1
           /\ first.entries[first.index + 1].url.pathname # currentEntry.url.pathname

\* a history layer on which no call has run yet
Pristine == host # NoHost /\ op.pc = "idle" /\ op.last = None

\* C24: a history layer set up on a window whose history.state carries the
\* patched marker starts with one entry that has the marker's id, key and
\* inner state; and wherever the window holds a marker, a read of
\* history.state gives the marker's inner state, never the marker.
C24_AdoptsMarker ==
    /\ (Pristine /\ isPatchedState(host.slots[host.at + 1].state)) =>
           LET marker == host.slots[host.at + 1].state
           IN  /\ Len(state.entries) = 1 /\ state.index = 0
               /\ currentEntry.id = marker.id
               /\ currentEntry.key = marker.key
               /\ currentEntry.state = marker.inner
               /\ historyState(host) = marker.inner
    /\ (host # NoHost /\ isPatchedState(host.slots[host.at + 1].state)) =>
           /\ ~isPatchedState(historyState(host))
           /\ historyState(host) = host.slots[host.at + 1].state.inner

C24_Witness ==
    /\ Pristine
    /\ isPatchedState(host.slots[host.at + 1].state)
    /\ currentEntry.state # Undefined
    /\ Len(queue) > 0

\* a later read: the marker written by a committed navigate
C24_WitnessNext ==
    /\ host # NoHost
    /\ isSome(op.last) /\ op.last[1].call.via = "navigate"
    /\ op.last[1].outcome = "committed"
    /\ op.last[1].pre.entries[1].state # Undefined
    /\ isPatchedState(host.slots[host.at + 1].state)
    /\ historyState(host) = Undefined

\* C25: a call of the patched history.pushState(s, _, url) with a url, once
\* its navigation is committed, leaves the current entry at that url with
\* state s.
C25_PushState ==
    (/\ isSome(op.call) /\ op.call[1].via = "pushState"
     /\ Ended("committed") /\ op.depth = 0) =>
        /\ currentEntry.url = op.call[1].url
        /\ currentEntry.state = op.call[1].given[1]

\* the events in sight: the one the running call handles (handed to
\* before-handlers and to commit) and the one the transition projection shows
Seen ==
    (IF isSome(op.event) THEN {op.event[1]} ELSE {}) \cup
    (IF isSome(Get.transition) THEN {Get.transition[1]} ELSE {})

\* C26 as stated: every push, replace or reload event in sight has delta 0.
C26_DeltaZero ==
    \A e \in Seen : e.type \in {"push", "replace", "reload"} => e.delta = 0

\* C26, amended: every replace or reload event in sight has delta 0 and every
\* push event has delta 1; the traverse event a call proposes carries the
\* signed distance from the current index to an entry with the target's key.
C26_Delta ==
    /\ \A e \in Seen :
           /\ e.type \in {"replace", "reload"} => e.delta = 0
           /\ e.type = "push" => e.delta = 1
    /\ (isSome(op.event) /\ op.event[1].type = "traverse") =>
           LET e == op.event[1]
               target == Pre.index + e.delta
           IN  /\ target \in 0..(Len(Pre.entries) - 1)
               /\ Pre.entries[target + 1].key = e.to.key

C26_Witness ==
    /\ op.pc = "before"
    /\ isSome(Get.transition)
    /\ Get.transition[1].type = "push"
    /\ op.event[1].delta = 1

C26_WitnessTraverse ==
    /\ op.pc = "commit"
    /\ op.event[1].type = "traverse"
    /\ op.event[1].delta = -1

\* C27: updateCurrentEntry({state}) proposes a replace from the current entry
\* to the current entry with the given state and nothing else changed; once
\* committed, the entries are as many and the index the same, the current
\* entry has the same url and key and the given state, and every other
\* entry is as it was.
C27_UpdateCurrentEntry ==
    (isSome(op.call) /\ op.call[1].kind = "updateCurrentEntry") =>
        LET current == Pre.entries[Pre.index + 1]
            e == op.orig[1]
        IN  /\ e.type = "replace" /\ e.delta = 0
            /\ e.from = current
            /\ e.to = [current EXCEPT !.state = op.call[1].state]
            /\ (Ended("committed") /\ op.depth = 0) =>
                   /\ Len(Get.entries) = Len(Pre.entries)
                   /\ Get.index = Pre.index
                   /\ currentEntry.url = current.url
                   /\ currentEntry.key = current.key
                   /\ currentEntry.state = op.call[1].state
                   /\ \A k \in 1..Len(Pre.entries) :
                          k # Pre.index + 1 => Get.entries[k] = Pre.entries[k]

C27_Witness ==
    /\ isSome(op.call) /\ op.call[1].via = "updateCurrentEntry"
    /\ Ended("committed") /\ op.depth = 0
    /\ Len(Get.entries) = 3 /\ Get.index = 1
    /\ currentEntry.state # Pre.entries[Pre.index + 1].state

\* C28: the destination a committed transition ends with has an id that no
\* entry stored before the call had, and it has the key of its slot when the
\* transition is a replace at the current path, a reload or a traverse.
C28_FreshIds ==
    (Ended("committed") /\ op.depth = 0) =>
        LET from == Pre.entries[Pre.index + 1]
            e == op.orig[1]
        IN  /\ To.id \notin Ids(Pre.entries)
            /\ (/\ e.type = "replace"
                /\ To.url.origin = from.url.origin
                /\ To.url.pathname = from.url.pathname) => To.key = from.key
            /\ e.type = "reload" => To.key = from.key
            /\ e.type = "traverse" =>
                   To.key = Pre.entries[Pre.index + e.delta + 1].key

\* shouldBlock returned false for the event the running call handles
Declined ==
    /\ isSome(op.event) /\ Len(op.block) > 0
    /\ op.block[Len(op.block)].said = "none"
    /\ op.block[Len(op.block)].event = op.event[1]

\* C29: once shouldBlock has returned false for an event, the facade's cell is
\* Unblocked (no Blocking value is shown), the facade has handed the engine
\* no effect to wait for and no decision is awaited; with the facade's
\* handler the only before-handler, the call is past the before phase and
\* ends committed.
C29_Abstains ==
    Declined =>
        /\ blockState = Unblocked
        /\ BlockHandler \notin Range(op.matches)
        /\ op.awaited = None
        /\ FacadeAlone =>
               /\ op.pc \in {"commit", "mutate", "after", "afterDeferred", "done"}
               /\ op.pc = "done" => op.outcome = "committed"

C29_Witness ==
    /\ Declined /\ FacadeAlone
    /\ Ended("committed")
    /\ Event.type = "push"
    /\ currentEntry = To

\* the last failure was a before-handler's synchronous one
FailedInPolling == isSome(op.failedAt) /\ op.failedAt[1].phase = "before"

\* C30: while an event's before-handlers are polled, those polled so far are
\* the first of the snapshot in registration order and no deferred effect
\* has run; when a handler fails synchronously with Cancel or Redirect, the
\* handlers invoked for that event are the snapshot up to the failing one, no
\* later one is polled afterwards, and no deferred effect of the event runs:
\* the call ends there or goes on with the redirect's event.
C30_SyncFailurePreempts ==
    /\ op.pc = "before" =>
           /\ HandlersOf(Ran("before")) = SubSeq(op.snap, 1, op.i - 1)
           /\ Ran("deferred") = <<>>
    /\ FailedInPolling =>
           LET f == op.failedAt[1]
               snapshot == op.snaps[f.n]
           IN  /\ HandlersOf(f.log) = SubSeq(snapshot, 1, f.i)
               /\ \A k \in 1..Len(f.log) : f.log[k].phase = "before"
               /\ op.polls[f.n] = f.i
               /\ f.n = Len(op.snaps) => /\ op.pc = "done"
                                         /\ op.outcome \in {"cancelled", "died"}
                                         /\ op.log = f.log
               /\ f.n < Len(op.snaps) => /\ f.n = Len(op.snaps) - 1
                                         /\ op.failure[1].tag = "RedirectError"

\* the first handler handed over an effect, the second cancelled
C30_Witness ==
    /\ FailedInPolling
    /\ Ended("cancelled")
    /\ op.failedAt[1].i = 2
    /\ Len(op.matches) = 1
    /\ Len(Ran("deferred")) = 0

\* the first of two handlers redirected
C30_WitnessRedirect ==
    /\ FailedInPolling
    /\ op.failedAt[1].n = 1 /\ Len(op.snaps) = 2
    /\ Len(op.snaps[1]) = 2
    /\ op.failedAt[1].i = 1
    /\ Ended("committed")

\* the last failure was a deferred effect's
FailedInDeferred == isSome(op.failedAt) /\ op.failedAt[1].phase = "deferred"

\* C31: the deferred effects of an event run only once every before-handler
\* of the snapshot has been polled without failure, one at a time and in the
\* order their handlers handed them over; when one fails with Cancel or
\* Redirect, no later effect of that event runs, and the call ends there
\* (Cancel) or goes on with the redirect's event (Redirect).
C31_DeferredInOrder ==
    /\ op.pc = "deferred" =>
           /\ HandlersOf(Ran("before")) = op.snap
           /\ HandlersOf(Ran("deferred")) = SubSeq(op.matches, 1, op.i - 1)
           /\ op.log = Ran("before") \o Ran("deferred")
    /\ FailedInDeferred =>
           LET f == op.failedAt[1]
               before == SelectSeq(f.log, LAMBDA e : e.phase = "before")
               deferred == SelectSeq(f.log, LAMBDA e : e.phase = "deferred")
           IN  /\ f.log = before \o deferred
               /\ HandlersOf(before) = op.snaps[f.n]
               /\ HandlersOf(deferred) = SubSeq(f.matches, 1, f.i)
               /\ f.n = Len(op.snaps) => /\ op.pc = "done"
                                         /\ op.outcome \in {"cancelled", "died"}
                                         /\ op.log = f.log
                                         /\ op.nCommits = 0
               /\ f.n < Len(op.snaps) => /\ f.n = Len(op.snaps) - 1
                                         /\ op.failure[1].tag = "RedirectError"
               /\ (op.failure[1].tag = "CancelNavigation" /\ op.depth < RedirectLimit) =>
                      Ended("cancelled")

\* two effects handed over, the first cancelled: the second never ran
C31_Witness ==
    /\ FailedInDeferred
    /\ Ended("cancelled")
    /\ Len(op.failedAt[1].matches) = 2
    /\ op.failedAt[1].i = 1
    /\ Len(Ran("deferred")) = 1

\* the first of two effects redirected, and the redirect's event committed
C31_WitnessRedirect ==
    /\ FailedInDeferred
    /\ op.failedAt[1].n = 1 /\ Len(op.snaps) = 2
    /\ Len(op.failedAt[1].matches) = 2
    /\ op.failedAt[1].i = 1
    /\ Ended("committed")

\* a handler or an effect of the event the running call handles has failed
FailedThisEvent == isSome(op.failedAt) /\ op.failedAt[1].n = Len(op.snaps)

\* C32: in a call not run with skipCommit, commit is invoked at most once;
\* it is invoked for the event whose before-handlers have all been polled and
\* whose deferred effects have all completed, none of them failing, while the
\* cell still holds the entries and index of before the call, which are
\* written only afterwards; an event that was cancelled or given up for a
\* redirect's event gets no commit.
C32_CommitOnce ==
    /\ [](/\ op.nCommits <= 1
          /\ (Mutated /\ ~op.skipCommit) => op.nCommits = 1
          /\ (op.pc = "done" /\ op.outcome \in {"cancelled", "died", "noop"}) =>
                 op.nCommits = 0
          /\ op.pc \in {"before", "deferred", "commit"} => op.nCommits = 0)
    /\ [][op'.nCommits > op.nCommits =>
            /\ op.pc = "commit" /\ ~op.skipCommit
            /\ op'.event = op.event
            /\ ~FailedThisEvent
            /\ HandlersOf(Ran("before")) = op.snap
            /\ HandlersOf(Ran("deferred")) = op.matches
            /\ op.log = Ran("before") \o Ran("deferred")
            /\ Get.entries = Pre.entries /\ Get.index = Pre.index
            /\ state' = state]_vars
    /\ [][(op'.nEvents > op.nEvents /\ op.nEvents > 0) =>
            op.nCommits = 0 /\ op'.nCommits = 0]_vars

\* a push committed once, after two handlers and an effect, not yet written
C32_Witness ==
    /\ op.pc = "mutate" /\ ~op.skipCommit
    /\ op.nCommits = 1
    /\ Event.type = "push"
    /\ Len(Ran("before")) = 2 /\ Len(Ran("deferred")) >= 1
    /\ Get.entries = Pre.entries

\* an event cancelled by its effect, and no commit
C32_WitnessCancelled ==
    /\ Ended("cancelled")
    /\ FailedInDeferred
    /\ op.nCommits = 0

\* the first event given up for a redirect, the redirect's event committed
C32_WitnessRedirect ==
    /\ Ended("committed")
    /\ op.depth = 1 /\ op.nEvents = 2
    /\ op.nCommits = 1

\* C33: a call run with skipCommit (the engine follows a popstate) never
\* invokes commit and leaves the window as it is, yet once it is past the
\* place of the commit the cell holds the entries and index the event's type
\* gives from those of before the call, the transition is cleared, and the
\* after-handlers registered then are each invoked with the destination.
C33_SkipCommit ==
    /\ [](op.skipCommit =>
            /\ op.nCommits = 0
            /\ op.call[1].via = "popstate"
            /\ Mutated =>
                   LET written == mutate(Event, Pre, To)
                   IN  /\ Get.entries = written.entries
                       /\ Get.index = written.index
                       /\ Get.transition = None
                       /\ Event.type \in {"traverse", "replace"}
                       /\ Event.type = "traverse" =>
                              /\ Get.index = Pre.index + Event.delta
                              /\ Get.entries = Pre.entries
                       /\ Event.type = "replace" =>
                              /\ Get.index = Pre.index
                              /\ currentEntry = To
            /\ Ended("committed") =>
                   /\ HandlersOf(Ran("after")) = op.snap
                   /\ \A k \in 1..Len(op.log) : op.log[k].arg = To)
    /\ [][(op.skipCommit /\ op.pc = "commit" /\ op' # op) =>
            /\ host' = host
            /\ op'.pc = "mutate"
            /\ op'.nCommits = 0]_vars
    /\ [][(op.skipCommit /\ op.pc = "mutate" /\ op' # op) =>
            op'.snap = handlers]_vars

\* a popstate's traverse moved the index and an after-handler ran
C33_Witness ==
    /\ Ended("committed") /\ op.skipCommit
    /\ Event.type = "traverse"
    /\ Get.index # Pre.index
    /\ Len(Ran("after")) >= 1

\* a popstate without a marker replaced the current entry
C33_WitnessReplace ==
    /\ Ended("committed") /\ op.skipCommit
    /\ Event.type = "replace"
    /\ currentEntry = To /\ To # Pre.entries[Pre.index + 1]

\* C34: a call run with skipCommit polls no before-handler and runs no
\* deferred effect, whatever is registered, the blocking facade's handler
\* included: its event is never cancelled, never replaced by a redirect's
\* event and never shown as Blocked; from the place of the commit it goes to
\* the write of the new state, and it ends committed.
C34_NoBeforeHandlers ==
    /\ []((op.skipCommit /\ isSome(op.event)) =>
            /\ Ran("before") = <<>> /\ Ran("deferred") = <<>>
            /\ op.snaps = <<>> /\ op.polls = <<>>
            /\ op.block = <<>> /\ op.awaited = None
            /\ op.failure = None
            /\ op.depth = 0 /\ op.nEvents = 1
            /\ op.event = op.orig
            /\ op.pc \in {"commit", "mutate", "after", "afterDeferred", "done"}
            /\ op.pc = "done" => op.outcome = "committed"
            /\ blockState.tag = "Blocked" => blockState.event # Event)
    /\ [][op.skipCommit =>
            (blockState' = blockState \/ blockState'.tag # "Blocked")]_vars
    /\ [][(op.skipCommit /\ op.pc = "commit" /\ op' # op) =>
            op'.pc = "mutate"]_vars

\* a popstate's traverse committed past the facade's handler
C34_Witness ==
    /\ Ended("committed") /\ op.skipCommit
    /\ Event.type = "traverse"
    /\ BlockHandler \in Range(beforeHandlers)
    /\ blockState.tag \in {"Unblocked", "Blocked"}

\* and past a plain before-handler
C34_WitnessHandler ==
    /\ Mutated /\ op.skipCommit
    /\ Range(beforeHandlers) \cap HandlerIds # {}

\* the keys of these entries are pairwise distinct
DistinctKeys(es) == \A j, k \in 1..Len(es) : es[j].key = es[k].key => j = k

\* C35 as stated: the event of a call of back() is a traverse with delta -1
\* to the entry before the current one of the state the event starts in, and
\* the event of a call of forward() is a traverse with delta +1 to the entry
\* after it, also when the call had to wait for another one (here even with
\* the keys of the entries pairwise distinct).
C35_BackForwardDelta ==
    (/\ isSome(op.call) /\ isSome(op.event) /\ op.depth = 0
     /\ op.call[1].via \in {"back", "forward"}
     /\ DistinctKeys(Pre.entries)) =>
        LET d == IF op.call[1].via = "back" THEN -1 ELSE 1
        IN  /\ Event.type = "traverse"
            /\ Event.delta = d
            /\ Pre.index + d \in 0..(Len(Pre.entries) - 1)
            /\ Event.to.key = Pre.entries[Pre.index + d + 1].key
            /\ Event.from = Pre.entries[Pre.index + 1]

\* C36 as stated: in every reachable state the keys of the entries are
\* pairwise distinct, whatever navigate calls were made, with history 'push',
\* 'replace' or 'auto', those to the current entry's own path included.
C36_DistinctKeys == DistinctKeys(Get.entries)

\* C37 as stated: the destination a committed call returns, which is the one
\* its after-handlers received, is the current entry of the cell when the
\* call completes, id included, whether the event was a push, a replace, a
\* reload or a traverse.
C37_ReturnsCurrentEntry ==
    /\ Ended("committed") =>
           /\ op.result[1] = currentEntry
           /\ op.result[1].id = currentEntry.id
    /\ Mutated =>
           \A k \in 1..Len(op.log) :
               op.log[k].phase \in {"after", "afterDeferred"} =>
                   op.log[k].arg = currentEntry

\* C38 as stated: clamping a clamped state changes nothing, the clamp keeps
\* the transition, and it keeps the current destination: when the entry at
\* the index of the stored state is among its last maxEntries entries, the
\* entry at the index of the clamped state is that entry (also for a memory
\* layer started with more than maxEntries entries and a currentIndex that
\* is not the last).
C38_ClampKeepsCurrent ==
    host = NoHost =>
        /\ clampNavigationState(maxEntries, Get) = Get
        /\ Get.transition = state.transition
        /\ Len(state.entries) - state.index <= maxEntries =>
               Get.entries[Get.index + 1] = state.entries[state.index + 1]

\* registry b is registry a with one new entry after the others
Added(a, b) ==
    /\ Len(b) = Len(a) + 1
    /\ SubSeq(b, 1, Len(a)) = a
    /\ b[Len(b)] \notin Range(a)

\* registry b is registry a without one of its entries, the others in place
Removed(a, b) ==
    \E k \in 1..Len(a) :
        b = SubSeq(a, 1, k - 1) \o SubSeq(a, k + 1, Len(a))

\* C39: the handlers a phase iterates are those registered when the phase
\* starts, in insertion order, and the iteration is over that snapshot: a
\* registration or a release made while the phase runs does not change what
\* it iterates, so a handler registered meanwhile is not invoked for the
\* event; every handler invoked for an event was registered when its phase
\* started; a registration adds one entry after the others and a release
\* removes exactly one entry, leaving the others in their order.
C39_ScopedSnapshot ==
    /\ [](/\ op.pc \in {"before", "deferred"} =>
                /\ op.snap = op.snaps[Len(op.snaps)]
                /\ \A k \in 1..Len(op.log) :
                       op.log[k].h \in Range(op.snaps[Len(op.snaps)])
          /\ op.pc \in {"after", "afterDeferred"} =>
                \A k \in 1..Len(op.log) :
                    op.log[k].phase \in {"after", "afterDeferred"} =>
                        op.log[k].h \in Range(op.snap))
    /\ [][(op'.nEvents > op.nEvents /\ ~op'.skipCommit) =>
            /\ op'.snap = beforeHandlers
            /\ op'.snaps[Len(op'.snaps)] = beforeHandlers]_vars
    /\ [][(op.pc \in {"before", "deferred"} /\ op'.nEvents = op.nEvents) =>
            op'.snap = op.snap]_vars
    /\ [][(op.pc = "mutate" /\ op'.pc # "mutate") => op'.snap = handlers]_vars
    /\ [][(op.pc \in {"after", "afterDeferred"} /\ op'.pc # "idle") =>
            op'.snap = op.snap]_vars
    /\ [][/\ beforeHandlers' # beforeHandlers =>
               Added(beforeHandlers, beforeHandlers')
                   \/ Removed(beforeHandlers, beforeHandlers')
          /\ handlers' # handlers =>
               Added(handlers, handlers') \/ Removed(handlers, handlers')]_vars

\* a handler registered while the before-handlers of an event are polled,
\* which the loop does not iterate
C39_Witness ==
    /\ op.pc = "before"
    /\ Len(op.snap) >= 1
    /\ \E h \in HandlerIds : h \in Range(beforeHandlers) /\ h \notin Range(op.snap)

\* a handler released while the loop runs, which is still to be polled
C39_WitnessReleased ==
    /\ op.pc = "before"
    /\ op.i = 2
    /\ op.snap[op.i] \notin Range(beforeHandlers)
    /\ op.snap[1] \in Range(beforeHandlers)

\* the first of two after-handlers released, the second in place
C39_WitnessOrder ==
    /\ op.pc = "after"
    /\ Len(op.snap) = 2
    /\ handlers = <<op.snap[2]>>

\* the running call's event is the one the facade shows as Blocked, and no
\* decision on it was taken yet
BlockedAwaiting ==
    /\ blockState.tag = "Blocked" /\ blockState.deferred = Pending
    /\ op.pc \in {"before", "deferred"}
    /\ op.event = Some(blockState.event)

\* the running call is suspended in the facade's Deferred.await
Suspended ==
    /\ BlockedAwaiting
    /\ op.pc = "deferred" /\ op.matches[op.i] = BlockHandler

\* queue a is the front of queue b
Front(a, b) == Len(a) <= Len(b) /\ SubSeq(b, 1, Len(a)) = a

C40_WitnessNotReblocked ==
    /\ Ended("committed")
    /\ isSome(op.last) /\ op.last[1].outcome \in {"committed", "cancelled"}
    /\ op.call[1].kind = "navigate"
    /\ Len(op.block) = 1 /\ op.block[1].answer = "twice"
    /\ blockState.event # Event
    /\ blockState.deferred # Pending

==============================================================================
